---- MODULE Spec2Model ----
(***************************************************************************)
(* Model of collector/pearl.go: the "pearl" collector that discovers runit *)
(* services under the service roots, reads /proc/<pid>/status of each and  *)
(* emits the known status fields as labelled gauge samples.                *)
(*                                                                         *)
(* Text (status lines, service names, the channel_id file) is modelled as  *)
(* sequences of one-character strings, so that prefix tests, whitespace    *)
(* splitting, trimming and integer parsing are computed, not assumed.      *)
(*                                                                         *)
(* Spec is one collection pass (Update): the walks of the two service      *)
(* roots, then the loop over the services found.  SpecService is the loop  *)
(* body on one service over every status record of the pool, SpecLabels is *)
(* GetLabels over every service name of the pool.                          *)
(***************************************************************************)
EXTENDS Integers, Sequences, FiniteSets, TLC

VARIABLES
    pc,         \* position of the operation that is running
    root,       \* getAllServices: index into svcRoots of the root being walked
    walking,    \* filepath.WalkDir: TRUE once the root's children are being visited
    found,      \* getServicesInDir: the local slice `services` of the current walk
    services,   \* getAllServices: the accumulated slice `services`
    gaErr,      \* the error getAllServices returned to Update
    rootResult, \* per root: "pending", "clean" (walk returned nil) or "failed"
    tree,       \* per root: the child paths the walk visited, and whether each holds the marker
    lastVisit,  \* the last call of walkFn of the walks: its arguments and what it did
    i,          \* Update: index of the service the loop is at
    sink,       \* the samples written to ch, in order
    log,        \* per processed service: the error and snapshot GetStatusFileMetrics gave
    ret,        \* what Update returned: "none" (still running), "nil" or "err"
    cur,        \* single-service run: the service and what the system answers for it
    out         \* single-service run: the labels, the parse result and the samples

vars == <<pc, root, walking, found, services, gaErr, rootResult, tree, lastVisit,
          i, sink, log, ret, cur, out>>

-----------------------------------------------------------------------------
(* Bounds of the model *)

\* lines in one status record
MaxLines == 2
\* child paths visited by the walks of one pass
MaxEntries == 3
\* characters in a service name of the label run
MaxNameLen == 5

-----------------------------------------------------------------------------
(* Text *)

NoErr == "nil"

\* unicode.IsSpace, restricted to the characters of the model
IsSpace(c) == c \in {" ", "\t", "\n"}

IsDigit(c) == c \in {"0", "1", "2", "3", "4", "5", "6", "7", "8", "9"}

DigitVal(c) ==
    CASE c = "0" -> 0 [] c = "1" -> 1 [] c = "2" -> 2 [] c = "3" -> 3 [] c = "4" -> 4
      [] c = "5" -> 5 [] c = "6" -> 6 [] c = "7" -> 7 [] c = "8" -> 8 [] c = "9" -> 9

\* strings.HasPrefix
HasPrefix(s, prefix) ==
    /\ Len(prefix) <= Len(s)
    /\ SubSeq(s, 1, Len(prefix)) = prefix

\* strings.Contains(s, ".") for a one-character separator
Contains(s, c) == \E k \in 1..Len(s) : s[k] = c

RECURSIVE FieldsFrom(_, _, _, _)
FieldsFrom(s, k, tok, acc) ==
    IF k > Len(s)
    THEN IF tok = <<>> THEN acc ELSE Append(acc, tok)
    ELSE IF IsSpace(s[k])
         THEN FieldsFrom(s, k + 1, <<>>, IF tok = <<>> THEN acc ELSE Append(acc, tok))
         ELSE FieldsFrom(s, k + 1, Append(tok, s[k]), acc)

\* strings.Fields: the maximal runs of non-space characters
Fields(s) == FieldsFrom(s, 1, <<>>, <<>>)

RECURSIVE SplitFrom(_, _, _, _, _)
SplitFrom(s, sep, k, part, acc) ==
    IF k > Len(s)
    THEN Append(acc, part)
    ELSE IF s[k] = sep
         THEN SplitFrom(s, sep, k + 1, <<>>, Append(acc, part))
         ELSE SplitFrom(s, sep, k + 1, Append(part, s[k]), acc)

\* strings.Split(s, sep) for a one-character separator: empty parts are kept
Split(s, sep) == SplitFrom(s, sep, 1, <<>>, <<>>)

RECURSIVE TrimLeft(_)
TrimLeft(s) ==
    IF s # <<>> /\ IsSpace(s[1]) THEN TrimLeft(Tail(s)) ELSE s

RECURSIVE TrimRight(_)
TrimRight(s) ==
    IF s # <<>> /\ IsSpace(s[Len(s)]) THEN TrimRight(SubSeq(s, 1, Len(s) - 1)) ELSE s

\* strings.TrimSpace
TrimSpace(s) == TrimRight(TrimLeft(s))

RECURSIVE DigitsValue(_, _)
DigitsValue(s, acc) ==
    IF s = <<>> THEN acc ELSE DigitsValue(Tail(s), acc * 10 + DigitVal(s[1]))

\* strconv.Atoi: an optional sign, then one or more decimal digits.  The
\* tokens of the model are far below the range of int, so the range error of
\* Atoi does not arise.
Atoi(s) ==
    LET signed == s # <<>> /\ s[1] \in {"+", "-"}
        digits == IF signed THEN Tail(s) ELSE s
    IN  IF digits = <<>> \/ \E k \in 1..Len(digits) : ~IsDigit(digits[k])
        THEN [err |-> "syntax", value |-> 0]
        ELSE [err |-> NoErr,
              value |-> IF signed /\ s[1] = "-"
                        THEN -DigitsValue(digits, 0)
                        ELSE DigitsValue(digits, 0)]

EmptyMap == [k \in {} |-> 0]

\* m[k] = v on a Go map
MapPut(m, k, v) == [x \in DOMAIN m \cup {k} |-> IF x = k THEN v ELSE m[x]]

-----------------------------------------------------------------------------
(* The known metric table, pearl.go lines 32-44 *)

VmRSSKey == <<"V", "m", "R", "S", "S">>
ThreadsKey == <<"T", "h", "r", "e", "a", "d", "s">>
VoluntaryKey ==
    <<"v", "o", "l", "u", "n", "t", "a", "r", "y", "_", "c", "t", "x", "t", "_", "s", "w", "i", "t", "c", "h", "e", "s">>
NonvoluntaryKey ==
    <<"n", "o", "n", "v", "o", "l", "u", "n", "t", "a", "r", "y", "_", "c", "t", "x", "t", "_", "s", "w", "i", "t", "c", "h", "e", "s">>

knownMetrics ==
    << [StatusKey |-> VmRSSKey, MetricName |-> "service_mem_vmrss",
        Description |-> "Virtual memory resident set size in bytes",
        NumberOfParams |-> 2, Multiplier |-> 1024],
       [StatusKey |-> ThreadsKey, MetricName |-> "service_threads",
        Description |-> "Number of threads",
        NumberOfParams |-> 1, Multiplier |-> 1],
       [StatusKey |-> VoluntaryKey, MetricName |-> "service_voluntary_ctxt_switches",
        Description |-> "Number of voluntary context switches",
        NumberOfParams |-> 1, Multiplier |-> 1],
       [StatusKey |-> NonvoluntaryKey, MetricName |-> "service_nonvoluntary_ctxt_switches",
        Description |-> "Number of nonvoluntary context switches",
        NumberOfParams |-> 1, Multiplier |-> 1] >>

-----------------------------------------------------------------------------
(* getMetricsFromStatusFile, pearl.go lines 165-197 *)

\* a parse result: the error, whether the returned map is nil, and the map
Failure(e) == [err |-> e, isNil |-> TRUE, m |-> EmptyMap]
Snapshot(m) == [err |-> NoErr, isNil |-> FALSE, m |-> m]

\* a variant that only rejects a line with too few tokens
WrongParamCountTooFew(parts, metric) == Len(parts) < metric.NumberOfParams + 1

\* line 181: len(parts) != metric.NumberOfParams+1
WrongParamCount(parts, metric) == Len(parts) # metric.NumberOfParams + 1

\* a variant that stores the token's value without the multiplier
StoredValueRaw(value, metric) == value

\* line 190: value * metric.Multiplier.  The values of the model stay far
\* below the range of int, where the product is the mathematical one.
StoredValue(value, metric) == value * metric.Multiplier

\* lines 178-192: one scanned line against every known metric, in table order
RECURSIVE ScanMetrics(_, _, _)
ScanMetrics(line, k, m) ==
    IF k > Len(knownMetrics)
    THEN Snapshot(m)
    ELSE LET metric == knownMetrics[k]
         IN  IF HasPrefix(line, metric.StatusKey)
             THEN LET parts == Fields(line)
                  IN  IF WrongParamCount(parts, metric)
                      THEN Failure("params")
                      ELSE LET a == Atoi(parts[2])
                           IN  IF a.err # NoErr
                               THEN Failure("value")
                               ELSE ScanMetrics(line, k + 1,
                                        MapPut(m, metric.MetricName,
                                               StoredValue(a.value, metric)))
             ELSE ScanMetrics(line, k + 1, m)

\* lines 175-193: the scanner loop over the lines the scanner delivers
RECURSIVE ScanLines(_, _, _)
ScanLines(lines, n, m) ==
    IF n > Len(lines)
    THEN Snapshot(m)
    ELSE LET r == ScanMetrics(lines[n], 1, m)
         IN  IF r.err # NoErr THEN r ELSE ScanLines(lines, n + 1, r.m)

\* open: what os.Open said (NoErr or an error); lines: the lines scanner.Scan
\* delivered; scanErr: whether the scan ended on a read error instead of the
\* end of the file.  The code never consults scanner.Err(), so scanErr does
\* not reach the result.
getMetricsFromStatusFile(open, lines, scanErr) ==
    IF open # NoErr THEN Failure(open) ELSE ScanLines(lines, 1, EmptyMap)

\* RunitService.GetStatusFileMetrics, lines 136-143; sup is what rs.Status() said
GetStatusFileMetrics(sup, open, lines, scanErr) ==
    IF sup # NoErr THEN Failure(sup) ELSE getMetricsFromStatusFile(open, lines, scanErr)

-----------------------------------------------------------------------------
(* Labels, pearl.go lines 120-163 *)

\* line 127: buf := make([]byte, 8)
ChanBufLen == 8

\* a channel_id file: whether os.OpenFile succeeds, and its bytes
AbsentFile == [open |-> "notexist", data |-> <<>>]
File(data) == [open |-> NoErr, data |-> data]

\* file.Read(buf): at most len(buf) bytes; at the end of the file (0, io.EOF)
Read(data) ==
    IF data = <<>>
    THEN [n |-> 0, err |-> "EOF"]
    ELSE [n |-> IF Len(data) < ChanBufLen THEN Len(data) ELSE ChanBufLen, err |-> NoErr]

\* lines 120-134
getChannelID(file) ==
    IF file.open # NoErr
    THEN <<>>
    ELSE LET r == Read(file.data)
         IN  IF r.err # NoErr THEN <<>> ELSE TrimSpace(SubSeq(file.data, 1, r.n))

\* a variant that keeps the part before the first '.'
strippedNameFirst(name) ==
    IF Contains(name, ".") THEN Split(name, ".")[1] ELSE name

\* lines 145-152
strippedName(name) ==
    IF Contains(name, ".")
    THEN LET parts == Split(name, ".") IN parts[Len(parts)]
    ELSE name

\* lines 154-163: the label map, as a function from label key to value
GetLabels(name, file) ==
    LET channelID == getChannelID(file)
        labels == "service" :> strippedName(name)
    IN  IF channelID # <<>> THEN labels @@ ("channel_id" :> channelID) ELSE labels

-----------------------------------------------------------------------------
(* The loop body of Update, pearl.go lines 67-94 *)

\* a variant that reads the map without the ok test: an absent key reads as 0
LookupZero(metrics, name) ==
    [value |-> IF name \in DOMAIN metrics THEN metrics[name] ELSE 0, ok |-> TRUE]

\* line 82: value, ok := metrics[metric.MetricName]
Lookup(metrics, name) ==
    IF name \in DOMAIN metrics
    THEN [value |-> metrics[name], ok |-> TRUE]
    ELSE [value |-> 0, ok |-> FALSE]

\* lines 81-94: one sample per known metric present in the snapshot, in table
\* order.  labelKeys and labelValues are filled in one range over the map, so
\* they correspond index for index: the sample carries the map itself.  svc is
\* the index of the service in the loop (kept to tell whose sample it is), and
\* float64(value) is exact for the values of the model.
RECURSIVE EmitFrom(_, _, _, _)
EmitFrom(k, labels, metrics, svc) ==
    IF k > Len(knownMetrics)
    THEN <<>>
    ELSE LET metric == knownMetrics[k]
             v == Lookup(metrics, metric.MetricName)
             rest == EmitFrom(k + 1, labels, metrics, svc)
         IN  IF v.ok
             THEN << [name |-> metric.MetricName, labels |-> labels,
                      value |-> v.value, svc |-> svc] >> \o rest
             ELSE rest

\* lines 67-94 for one service: env is what the system answers for it
ServiceBody(service, svc, env) ==
    LET labels == GetLabels(service.Name, env.chan)
        res == GetStatusFileMetrics(env.sup, env.open, env.lines, env.scanErr)
    IN  [labels |-> labels, res |-> res,
         samples |-> IF res.err # NoErr THEN <<>> ELSE EmitFrom(1, labels, res.m, svc)]

-----------------------------------------------------------------------------
(* Inputs: status lines, records, channel_id files, service names *)

\* 'VmRSS:\t  2 kB'
LineVmRSS2 ==
    <<"V", "m", "R", "S", "S", ":", "\t", " ", " ", "2", " ", "k", "B">>
\* 'VmRSS:\t1 kB'
LineVmRSS1 == <<"V", "m", "R", "S", "S", ":", "\t", "1", " ", "k", "B">>
\* 'VmRSS:\t7'
LineVmRSSNoUnit == <<"V", "m", "R", "S", "S", ":", "\t", "7">>
\* 'VmRSS:\tx kB'
LineVmRSSNotInt == <<"V", "m", "R", "S", "S", ":", "\t", "x", " ", "k", "B">>
\* 'VmRSS:\t-3 kB'
LineVmRSSNeg == <<"V", "m", "R", "S", "S", ":", "\t", "-", "3", " ", "k", "B">>
\* 'Threads:\t4'
LineThreads4 == <<"T", "h", "r", "e", "a", "d", "s", ":", "\t", "4">>
\* 'Threads:\t4 5'
LineThreadsTwo ==
    <<"T", "h", "r", "e", "a", "d", "s", ":", "\t", "4", " ", "5">>
\* 'Threads'
LineThreadsBare == <<"T", "h", "r", "e", "a", "d", "s">>
\* 'voluntary_ctxt_switches:\t3'
LineVoluntary3 ==
    <<"v", "o", "l", "u", "n", "t", "a", "r", "y", "_", "c", "t", "x", "t", "_", "s", "w", "i", "t", "c", "h", "e", "s", ":", "\t", "3">>
\* 'nonvoluntary_ctxt_switches:\t0'
LineNonvoluntary0 ==
    <<"n", "o", "n", "v", "o", "l", "u", "n", "t", "a", "r", "y", "_", "c", "t", "x", "t", "_", "s", "w", "i", "t", "c", "h", "e", "s", ":", "\t", "0">>
\* 'Name:\tsv'
LineName == <<"N", "a", "m", "e", ":", "\t", "s", "v">>
\* ' VmRSS:\t9 kB'
LineIndented ==
    <<" ", "V", "m", "R", "S", "S", ":", "\t", "9", " ", "k", "B">>
\* ''
LineEmpty == <<>>

LinePool ==
    {LineVmRSSNeg,
     LineVmRSS2, LineVmRSS1, LineVmRSSNoUnit, LineVmRSSNotInt,
     LineThreads4, LineThreadsTwo, LineThreadsBare, LineVoluntary3,
     LineNonvoluntary0, LineName, LineIndented, LineEmpty}

RECURSIVE SeqsUpTo(_, _)
SeqsUpTo(S, n) ==
    IF n = 0
    THEN {<<>>}
    ELSE LET shorter == SeqsUpTo(S, n - 1)
         IN  shorter \cup {Append(s, x) : s \in shorter, x \in S}

Records == SeqsUpTo(LinePool, MaxLines)

\* channel_id files: none, "1\n", blank, and one longer than the read buffer
ChanPool ==
    {AbsentFile, File(<<"1", "\n">>), File(<<" ", "\n">>), File(<<>>),
     File(<<"1", "2", "3", "4", "5", "6", "7", "8", "9", "\n">>)}

SupOutcomes == {NoErr, "supervision"}
OpenOutcomes == {NoErr, "open"}

\* service names of the directories of a pass: "a.x", "b.x", "x"
NamePool == {<<"a", ".", "x">>, <<"b", ".", "x">>, <<"x">>}

\* service names of the label run: the non-empty texts over a, b and '.'
Names == SeqsUpTo({"a", "b", "."}, MaxNameLen) \ {<<>>}

\* what the system answers for one service of the loop
Envs(records, chans) ==
    [sup : SupOutcomes, open : OpenOutcomes, lines : records,
     scanErr : BOOLEAN, chan : chans]

Env(sup, open, lines, scanErr, chan) ==
    [sup |-> sup, open |-> open, lines |-> lines, scanErr |-> scanErr, chan |-> chan]

\* the answers for the services of a whole pass: the supervisor fails, the
\* record cannot be opened, the record is malformed, is empty, is read in
\* part, holds one field (without and with a channel_id), holds two fields
PassEnvs ==
    {Env("supervision", NoErr, <<>>, FALSE, AbsentFile),
     Env(NoErr, "open", <<>>, FALSE, AbsentFile),
     Env(NoErr, NoErr, <<LineThreads4, LineVmRSSNoUnit>>, FALSE, AbsentFile),
     Env(NoErr, NoErr, <<>>, FALSE, AbsentFile),
     Env(NoErr, NoErr, <<LineThreads4>>, TRUE, AbsentFile),
     Env(NoErr, NoErr, <<LineThreads4>>, FALSE, AbsentFile),
     Env(NoErr, NoErr, <<LineThreads4>>, FALSE, File(<<"1", "\n">>)),
     Env(NoErr, NoErr, <<LineVmRSS2, LineThreads4>>, FALSE, AbsentFile)}

-----------------------------------------------------------------------------
(* Service discovery, pearl.go lines 100-108 and 199-237 *)

\* line 226
svcRoots == <<"/service/", "/tmp/service/">>

\* filepath.Dir and filepath.Base of the roots, and of a child root + name
RootDir == <<"/service", "/tmp/service">>
RootBase == <<"s", "e", "r", "v", "i", "c", "e">>

\* what os.Stat(path + "/supervise") can say of a directory, and of a file
DirStat == {NoErr, "ENOENT", "EACCES"}
FileStat == {"ENOTDIR"}
\* and of a service root: the roots of the model hold no marker of their own
RootStat == {"ENOENT", "EACCES"}

\* lines 100-108: err is what os.Stat said of the marker
isServiceDir(err) ==
    IF err = NoErr
    THEN [s |-> TRUE, err |-> NoErr]
    ELSE IF err = "ENOENT"
         THEN [s |-> FALSE, err |-> NoErr]
         ELSE [s |-> FALSE, err |-> err]

\* lines 202-215: the callback on one path; stat is what os.Stat says of its
\* marker, err the error WalkDir hands in.  The error of isServiceDir is
\* dropped (s, _ := ...).
walkFn(svcs, name, dir, stat, err) ==
    LET s == isServiceDir(stat).s
    IN  [services |-> IF s THEN Append(svcs, [Name |-> name, Path |-> dir]) ELSE svcs,
         recorded |-> s,
         ret |-> IF err # NoErr THEN err ELSE NoErr]

\* filepath.WalkDir on one path (line 217): the callback with a nil error,
\* then, for a directory whose listing fails, the callback again with that
\* error.  lstat is set for the root only.
VisitPath(svcs, name, dir, lstat, stat, readdir) ==
    IF lstat # NoErr
    THEN walkFn(svcs, name, dir, stat, lstat)
    ELSE LET first == walkFn(svcs, name, dir, stat, NoErr)
         IN  IF first.ret # NoErr \/ readdir = NoErr
             THEN first
             ELSE walkFn(first.services, name, dir, stat, readdir)

\* a variant that keeps what a failed walk had found
getAllServicesStepKeep(svcs, d, err) == svcs \o d

\* lines 228-233: what one root adds to the services of the pass
getAllServicesStep(svcs, d, err) ==
    IF err # NoErr THEN svcs ELSE svcs \o d

\* line 236: return services, nil
getAllServicesErr == NoErr

\* a variant that ends the pass on the first service error
OnServiceErrorReturn == "return"

\* lines 69-72: on a service's error, log and continue
OnServiceError == "continue"

\* a call of walkFn: what os.Stat said of the marker, the error handed in,
\* whether the path was recorded as a service, and what the callback returned
Visit(stat, err, v) ==
    [valid |-> TRUE, stat |-> stat, err |-> err, recorded |-> v.recorded, ret |-> v.ret]

NoVisit == [valid |-> FALSE, stat |-> NoErr, err |-> NoErr, recorded |-> FALSE, ret |-> NoErr]

\* number of child paths the walks of the pass have visited
Visited == Len(tree[1]) + Len(tree[2])

-----------------------------------------------------------------------------
(* One collection pass: Update, pearl.go lines 60-98 *)

Init ==
    /\ pc = "walk"
    /\ root = 1
    /\ walking = FALSE
    /\ found = <<>>
    /\ services = <<>>
    /\ gaErr = NoErr
    /\ rootResult = <<"pending", "pending">>
    /\ tree = << <<>>, <<>> >>
    /\ lastVisit = NoVisit
    /\ i = 0
    /\ sink = <<>>
    /\ log = <<>>
    /\ ret = "none"
    /\ cur = 0
    /\ out = 0

\* getServicesInDir returned (d, err) for the current root: lines 228-234
RootDone(d, err) ==
    /\ services' = getAllServicesStep(services, d, err)
    /\ rootResult' = [rootResult EXCEPT ![root] = IF err # NoErr THEN "failed" ELSE "clean"]
    /\ root' = root + 1
    /\ walking' = FALSE
    /\ found' = <<>>

\* WalkDir(root): Lstat of the root, the callback on it, the listing of it
WalkRoot ==
    /\ pc = "walk" /\ root <= Len(svcRoots) /\ ~walking
    /\ \E lstat \in {NoErr, "ENOENT", "EACCES"}, stat \in RootStat, readdir \in {NoErr, "EACCES"} :
         /\ lstat # NoErr => stat = lstat /\ readdir = NoErr
         /\ LET v == VisitPath(<<>>, RootBase, RootDir[root], lstat, stat, readdir)
                e == IF lstat # NoErr THEN lstat ELSE readdir
            IN  /\ lastVisit' = Visit(stat, e, v)
                /\ IF v.ret # NoErr
                   THEN RootDone(v.services, v.ret)
                   ELSE /\ walking' = TRUE
                        /\ found' = v.services
                        /\ UNCHANGED <<services, rootResult, root>>
    /\ UNCHANGED <<pc, gaErr, tree, i, sink, log, ret, cur, out>>

\* the walk reaches the next path under the root: a directory or a file
WalkEntry ==
    /\ pc = "walk" /\ walking /\ Visited < MaxEntries
    /\ \E name \in NamePool, kind \in {"dir", "file"}, stat \in DirStat \cup FileStat,
          readdir \in {NoErr, "EACCES"} :
         /\ \A k \in 1..Len(tree[root]) : tree[root][k].name # name
         /\ kind = "dir" => stat \in DirStat
         /\ kind = "file" => stat \in FileStat /\ readdir = NoErr
         /\ LET v == VisitPath(found, name, RootDir[root], NoErr, stat, readdir)
            IN  /\ tree' = [tree EXCEPT ![root] =
                                Append(@, [name |-> name, marker |-> stat = NoErr])]
                /\ lastVisit' = Visit(stat, readdir, v)
                /\ IF v.ret # NoErr
                   THEN RootDone(v.services, v.ret)
                   ELSE /\ found' = v.services
                        /\ UNCHANGED <<services, rootResult, root, walking>>
    /\ UNCHANGED <<pc, gaErr, i, sink, log, ret, cur, out>>

\* no path is left under the root: WalkDir returns nil, lines 221 and 233
WalkEnd ==
    /\ pc = "walk" /\ walking
    /\ RootDone(found, NoErr)
    /\ UNCHANGED <<pc, gaErr, tree, lastVisit, i, sink, log, ret, cur, out>>

\* getAllServices returns, and Update tests its error: lines 61-64
UpdateStart ==
    /\ pc = "walk" /\ root > Len(svcRoots)
    /\ gaErr' = getAllServicesErr
    /\ IF getAllServicesErr # NoErr
       THEN pc' = "done" /\ ret' = "err" /\ i' = i
       ELSE pc' = "loop" /\ ret' = ret /\ i' = 1
    /\ lastVisit' = NoVisit
    /\ UNCHANGED <<root, walking, found, services, rootResult, tree, sink, log, cur, out>>

\* one turn of the loop over the services: lines 66-95
ProcessService ==
    /\ pc = "loop" /\ i <= Len(services)
    /\ \E env \in PassEnvs :
         LET b == ServiceBody(services[i], i, env)
         IN  /\ sink' = sink \o b.samples
             /\ log' = Append(log, [err |-> b.res.err, m |-> b.res.m])
             /\ IF b.res.err # NoErr /\ OnServiceError # "continue"
                THEN pc' = "done" /\ ret' = "err" /\ i' = i
                ELSE pc' = pc /\ ret' = ret /\ i' = i + 1
    /\ UNCHANGED <<root, walking, found, services, gaErr, rootResult, tree,
                   lastVisit, cur, out>>

\* the loop is over: line 97
Return ==
    /\ pc = "loop" /\ i > Len(services)
    /\ pc' = "done"
    /\ ret' = "nil"
    /\ UNCHANGED <<root, walking, found, services, gaErr, rootResult, tree,
                   lastVisit, i, sink, log, cur, out>>

Next == WalkRoot \/ WalkEntry \/ WalkEnd \/ UpdateStart \/ ProcessService \/ Return

Spec == Init /\ [][Next]_vars

-----------------------------------------------------------------------------
(* The loop body on one service, over every record of the pool *)

TheService == [Name |-> <<"s", "v">>, Path |-> RootDir[1]]

InitService ==
    /\ pc = "service"
    /\ cur \in [service : {TheService}, env : Envs(Records, ChanPool)]
    /\ out = 0
    /\ root = 0 /\ walking = FALSE /\ found = <<>> /\ services = <<TheService>>
    /\ gaErr = NoErr /\ rootResult = <<"clean", "clean">> /\ tree = << <<>>, <<>> >>
    /\ lastVisit = NoVisit /\ i = 1
    /\ sink = <<>> /\ log = <<>> /\ ret = "none"

RunService ==
    /\ pc = "service"
    /\ LET b == ServiceBody(cur.service, 1, cur.env)
       IN  /\ out' = b
           /\ sink' = sink \o b.samples
           /\ log' = Append(log, [err |-> b.res.err, m |-> b.res.m])
    /\ pc' = "served"
    /\ UNCHANGED <<root, walking, found, services, gaErr, rootResult, tree,
                   lastVisit, i, ret, cur>>

NextService == RunService

SpecService == InitService /\ [][NextService]_vars

-----------------------------------------------------------------------------
(* GetLabels on one service, over every name of the pool *)

InitLabels ==
    /\ pc = "labels"
    /\ cur \in [service : [Name : Names, Path : {RootDir[1]}], chan : ChanPool]
    /\ out = 0
    /\ root = 0 /\ walking = FALSE /\ found = <<>> /\ services = <<>>
    /\ gaErr = NoErr /\ rootResult = <<"clean", "clean">> /\ tree = << <<>>, <<>> >>
    /\ lastVisit = NoVisit /\ i = 1
    /\ sink = <<>> /\ log = <<>> /\ ret = "none"

RunLabels ==
    /\ pc = "labels"
    /\ out' = [labels |-> GetLabels(cur.service.Name, cur.chan)]
    /\ pc' = "labelled"
    /\ UNCHANGED <<root, walking, found, services, gaErr, rootResult, tree,
                   lastVisit, i, sink, log, ret, cur>>

NextLabels == RunLabels

SpecLabels == InitLabels /\ [][NextLabels]_vars

-----------------------------------------------------------------------------
(* Properties of a collection pass (Spec) *)

\* the positions in the sink of the samples of service j of the loop
SamplesOf(j) == {k \in 1..Len(sink) : sink[k].svc = j}

SampleNames(j) == {sink[k].name : k \in SamplesOf(j)}

\* C1: a service whose supervision query, record open or record parse fails
\* puts no sample in the sink; the loop still goes on to every later service,
\* which emits the samples of its snapshot; and the pass returns nil.
C1_FailingServiceContained ==
    /\ \A j \in 1..Len(log) :
         IF log[j].err # NoErr
         THEN SamplesOf(j) = {}
         ELSE SampleNames(j) = DOMAIN log[j].m
    /\ pc = "loop" => Len(log) = i - 1
    /\ pc = "done" => ret = "nil" /\ Len(log) = Len(services)

\* a finished pass in which a service failed and a later one emitted samples
C1_Witness ==
    /\ pc = "done"
    /\ \E j, k \in 1..Len(log) :
         /\ j < k
         /\ log[j].err # NoErr
         /\ log[k].err = NoErr
         /\ SamplesOf(k) # {}

\* C5: Update returns an error exactly when no service root could be walked.
C5_ErrorIffNoRootWalkable ==
    pc = "done" =>
        (ret = "err" <=> (rootResult[1] = "failed" /\ rootResult[2] = "failed"))

\* the services whose marker the walk of root r saw, in walk order
RECURSIVE MarkedFrom(_, _)
MarkedFrom(r, k) ==
    IF k > Len(tree[r])
    THEN <<>>
    ELSE (IF tree[r][k].marker
          THEN <<[Name |-> tree[r][k].name, Path |-> RootDir[r]]>>
          ELSE <<>>) \o MarkedFrom(r, k + 1)

MarkedUnder(r) == MarkedFrom(r, 1)

OneRootFails == rootResult \in {<<"failed", "clean">>, <<"clean", "failed">>}

WalkableRoot == IF rootResult[1] = "clean" THEN 1 ELSE 2

\* C6: when the walk of one root fails and the walk of the other is clean,
\* whichever of the two it is, the services of the pass are exactly those
\* with a marker under the walkable root, the samples of the pass come from
\* them alone, each of them that yields a snapshot emits it, and the pass
\* returns nil.
C6_OnlyWalkableRootServices ==
    pc \in {"loop", "done"} /\ OneRootFails =>
        /\ services = MarkedUnder(WalkableRoot)
        /\ \A k \in 1..Len(sink) : sink[k].svc \in 1..Len(services)
        /\ pc = "done" =>
             /\ ret = "nil"
             /\ \A j \in 1..Len(services) :
                  log[j].err = NoErr => SampleNames(j) = DOMAIN log[j].m

\* the first root's walk failed after it had seen a marker, the second root
\* walked cleanly, and both of its services emitted samples
C6_Witness ==
    /\ pc = "done"
    /\ rootResult = <<"failed", "clean">>
    /\ \E k \in 1..Len(tree[1]) : tree[1][k].marker
    /\ Len(services) = 2
    /\ SamplesOf(1) # {}
    /\ SamplesOf(2) # {}

\* C7: on every path the walk visits, the marker check decides: the marker
\* exists -> the path is recorded as a service; the check says not-found ->
\* it is not recorded and the callback returns no error of its own; the check
\* fails otherwise -> the callback returns that error, which aborts the walk.
C7_MarkerCheckDecides ==
    lastVisit.valid =>
        /\ lastVisit.stat = NoErr => lastVisit.recorded
        /\ lastVisit.stat = "ENOENT" =>
             ~lastVisit.recorded /\ lastVisit.ret = lastVisit.err
        /\ lastVisit.stat \notin {NoErr, "ENOENT"} =>
             ~lastVisit.recorded /\ lastVisit.ret = lastVisit.stat

\* C10: the services of a pass being distinct, no two samples of the sink
\* have the same metric name and the same label mapping.
C10_NoCollidingSeries ==
    (\A a, b \in 1..Len(services) : a # b => services[a] # services[b]) =>
        \A p, q \in 1..Len(sink) :
            p # q => ~(sink[p].name = sink[q].name /\ sink[p].labels = sink[q].labels)

-----------------------------------------------------------------------------
(* Properties of the loop body on one service (SpecService) *)

Served == pc = "served"

\* the lines of a record that match a status key, as HasPrefix matches
Matching(lines, key) == {n \in 1..Len(lines) : HasPrefix(lines[n], key)}

Last(S) == CHOOSE n \in S : \A other \in S : other <= n

\* some line matches a known status key with a token count other than
\* NumberOfParams + 1
HasMiscountedLine(lines) ==
    \E n \in 1..Len(lines), k \in 1..Len(knownMetrics) :
        /\ HasPrefix(lines[n], knownMetrics[k].StatusKey)
        /\ Len(Fields(lines[n])) # knownMetrics[k].NumberOfParams + 1

\* C2: whenever some line of the record matches a known status key and its
\* token count differs from NumberOfParams + 1, getMetricsFromStatusFile
\* returns a malformed-record error and a nil map: no value of that or any
\* other metric of the record, and so no sample.
C2_MiscountIsAnError ==
    Served /\ cur.env.sup = NoErr /\ cur.env.open = NoErr
           /\ HasMiscountedLine(cur.env.lines) =>
        /\ out.res.err \in {"params", "value"}
        /\ out.res.isNil
        /\ out.res.m = EmptyMap
        /\ out.samples = <<>>

\* "Threads:\t4" then "Threads:\t4 5": the second line fails the record
C2_Witness ==
    /\ Served /\ cur.env.sup = NoErr /\ cur.env.open = NoErr
    /\ cur.env.lines = <<LineThreads4, LineThreadsTwo>>
    /\ out.res.err = "params"

\* C3: the service_mem_vmrss sample of a service has the value N * 1024, N
\* being the integer token of the record's VmRSS line (of the last one,
\* should the key repeat); and a record that parses and holds a VmRSS line
\* emits exactly one such sample.
C3_VmRSSTimes1024 ==
    Served =>
        LET lines == cur.env.lines
            vmrss == {k \in 1..Len(sink) : sink[k].name = "service_mem_vmrss"}
            at == Matching(lines, VmRSSKey \o <<":">>)
        IN  /\ \A k \in vmrss :
                 /\ at # {}
                 /\ LET n == Atoi(Fields(lines[Last(at)])[2])
                    IN  n.err = NoErr /\ sink[k].value = n.value * 1024
            /\ out.res.err = NoErr /\ at # {} => Cardinality(vmrss) = 1

\* "VmRSS:\t  2 kB" and "Threads:\t4" give a sample of 2048
C3_Witness ==
    /\ Served
    /\ cur.env.lines = <<LineVmRSS2, LineThreads4>>
    /\ \E k \in 1..Len(sink) :
         sink[k].name = "service_mem_vmrss" /\ sink[k].value = 2048

\* C4: when the record was opened but reading it failed part-way, the parse
\* reports an error instead of a snapshot, and no sample is emitted from the
\* lines read before the failure.
C4_ReadFailureIsAnError ==
    Served /\ cur.env.sup = NoErr /\ cur.env.open = NoErr /\ cur.env.scanErr =>
        /\ out.res.err # NoErr
        /\ out.samples = <<>>

\* C8: when the record parses without error, a known metric is emitted if
\* and only if some line of the record matches its status key (so an absent
\* metric is never emitted, as zero or otherwise), and the empty record
\* gives an empty snapshot, no error and no sample.
C8_EmittedIffMatched ==
    Served =>
        /\ out.res.err = NoErr =>
             \A k \in 1..Len(knownMetrics) :
                 (\E p \in 1..Len(sink) : sink[p].name = knownMetrics[k].MetricName)
                     <=> Matching(cur.env.lines, knownMetrics[k].StatusKey) # {}
        /\ cur.env.sup = NoErr /\ cur.env.open = NoErr /\ cur.env.lines = <<>> =>
             /\ out.res.err = NoErr
             /\ ~out.res.isNil
             /\ out.res.m = EmptyMap
             /\ sink = <<>>

\* a record of a line without a known key and a zero count: one sample, of value 0
C8_Witness ==
    /\ Served /\ out.res.err = NoErr
    /\ cur.env.lines = <<LineName, LineNonvoluntary0>>
    /\ Len(sink) = 1
    /\ sink[1].name = "service_nonvoluntary_ctxt_switches"
    /\ sink[1].value = 0

-----------------------------------------------------------------------------
(* Properties of GetLabels (SpecLabels) *)

Dots(name) == {k \in 1..Len(name) : name[k] = "."}

\* the text after the last '.', or the whole name when it has none
AfterLastDot(name) ==
    IF Dots(name) = {} THEN name ELSE SubSeq(name, Last(Dots(name)) + 1, Len(name))

\* C9: the label mapping of every service has the key `service`, and its
\* value is the name after its last '.', or the name itself when it holds
\* no '.'.
C9_ServiceLabelIsStrippedName ==
    pc = "labelled" =>
        /\ "service" \in DOMAIN out.labels
        /\ out.labels["service"] = AfterLastDot(cur.service.Name)

\* "a.b.b" is labelled "b"
C9_Witness ==
    /\ pc = "labelled"
    /\ cur.service.Name = <<"a", ".", "b", ".", "b">>
    /\ out.labels["service"] = <<"b">>

====
